---- MODULE Spec2Model ----
(***************************************************************************)
(* Model of src/dependencies.rs: dependency_tree, which resolves every     *)
(* package of a `cargo metadata` document to its source directories        *)
(* (packages / source_path) and then registers the workspace members and   *)
(* the resolve nodes in a DepTree (build_dep_tree).                        *)
(*                                                                         *)
(* The document is immutable and chosen in Init.  Documents are            *)
(* schema-shaped except that a package may lack `manifest_path`;           *)
(* identifiers are opaque values that always parse.  One action is one     *)
(* iteration of one of the three loops of the code, or the code between    *)
(* two loops.                                                              *)
(***************************************************************************)
EXTENDS Naturals, Sequences, FiniteSets

VARIABLES
    metadata,       \* the document: [packages, workspace_members, nodes]
    config,         \* [omit_deps]
    pc,             \* "packages", "members", "nodes", "done"
    pkg_i,          \* index of the package entry the resolver is at
    in_dotarget,    \* the resolution mode (dotarget) the resolver is at
    package_map,    \* Packages: SourceVersion -> Package
    dep_tree,       \* the DepTree under construction
    root_ids,       \* the handles collected from workspace_members
    member_i,       \* index of the workspace member the builder is at
    node_i,         \* index of the resolve node the builder is at
    set_calls,      \* history: handle -> number of set_source calls
    result          \* what dependency_tree returned

vars == <<metadata, config, pc, pkg_i, in_dotarget, package_map, dep_tree,
          root_ids, member_i, node_i, set_calls, result>>

----------------------------------------------------------------------------
(* Bounds of the model *)

MaxPkgs == 2
MaxMembers == 2
MaxNodes == 2

Ids == {"a", "b"}

----------------------------------------------------------------------------
(* Paths and the file system *)

Abs(comps) == [abs |-> TRUE, comps |-> comps]
Rel(comps) == [abs |-> FALSE, comps |-> comps]

NoPath == [abs |-> FALSE, comps |-> <<"<none>">>]
NoField == [abs |-> FALSE, comps |-> <<"<no field>">>]

Dirs == { Abs(<<>>), Abs(<<"p">>), Abs(<<"p", "src">>), Abs(<<"p", "target">>),
          Abs(<<"q">>), Abs(<<"q", "src">>) }

Files == { Abs(<<"Cargo.toml">>), Abs(<<"lib.rs">>),
           Abs(<<"p", "Cargo.toml">>), Abs(<<"p", "src", "lib.rs">>),
           Abs(<<"q", "Cargo.toml">>), Abs(<<"q", "build.rs">>),
           Abs(<<"q", "src", "main.rs">>) }

Cwd == Abs(<<"p">>)

\* Path::parent: None for the root and for the empty path
parent(p) ==
    IF p.comps = <<>> THEN NoPath
    ELSE [abs |-> p.abs, comps |-> SubSeq(p.comps, 1, Len(p.comps) - 1)]

join(p, name) == [abs |-> p.abs, comps |-> Append(p.comps, name)]

is_absolute(p) == p.abs
is_relative(p) == ~p.abs

\* a relative path is looked up from the working directory; "" names nothing
OnDisk(p) ==
    IF p.abs THEN p
    ELSE IF p.comps = <<>> THEN NoPath
    ELSE Abs(Cwd.comps \o p.comps)

is_file(p) == OnDisk(p) \in Files
is_dir(p) == OnDisk(p) \in Dirs

----------------------------------------------------------------------------
(* source_path *)

Some(p) == [tag |-> "Some", path |-> p]
None == [tag |-> "None"]
Err(m) == [tag |-> "Err", msg |-> m]

LibKinds == {"lib", "rlib", "dylib", "cdylib", "staticlib"}

\* line 181: the kinds that are not skipped
IsSupportedKind(kind_str) ==
    kind_str = "bin" \/ kind_str \in LibKinds \/ kind_str = "proc-macro"
        \/ kind_str = "test"

HasSupportedKind(target) ==
    \E k \in 1..Len(target.kind) : IsSupportedKind(target.kind[k])

\* the first target, in order, that has a kind that is not skipped (0: none)
FirstSupported(targets) ==
    IF \E t \in 1..Len(targets) : HasSupportedKind(targets[t])
    THEN CHOOSE t \in 1..Len(targets) :
            /\ HasSupportedKind(targets[t])
            /\ \A u \in 1..(t - 1) : ~HasSupportedKind(targets[u])
    ELSE 0

\* lines 187-197: the directory of an existing absolute entry file, or in
\* build-output mode its parent joined with "target"
Candidate(src_path, dotarget) ==
    IF is_absolute(src_path) /\ is_file(src_path)
    THEN LET dir == parent(src_path) IN
         IF dir = NoPath THEN Err("Couldn't get directory of path")
         ELSE IF dotarget
              THEN LET pkg_path == parent(dir) IN
                   IF pkg_path = NoPath
                   THEN Err("Couldn't get package directory of path")
                   ELSE Some(join(pkg_path, "target"))
              ELSE Some(dir)
    ELSE Some(src_path)

\* line 204: a candidate that is no directory
InvalidDir(dotarget) ==
    IF dotarget THEN None ELSE Err("Invalid source path directory")

\* lines 186-207, for the first target with a supported kind
ResolveTarget(target, manifest_dir, dotarget) ==
    LET c == Candidate(target.src_path, dotarget) IN
    IF c.tag = "Err" THEN c
    ELSE LET src_path == IF is_relative(c.path) THEN manifest_dir ELSE c.path IN
         IF ~is_dir(src_path) THEN InvalidDir(dotarget) ELSE Some(src_path)

source_path(package, dotarget) ==
    IF package.manifest_path = NoField
    THEN Err("Couldn't find string entry 'manifest_path'")
    ELSE LET manifest_dir == parent(package.manifest_path) IN
         IF manifest_dir = NoPath THEN Err("Couldn't get directory of path")
         ELSE LET t == FirstSupported(package.targets) IN
              IF t = 0 THEN None
              ELSE ResolveTarget(package.targets[t], manifest_dir, dotarget)

----------------------------------------------------------------------------
(* DepTree: the operations dependencies.rs calls on it *)

EmptyFn == [x \in {} |-> 0]

Put(f, k, v) == [x \in DOMAIN f \cup {k} |-> IF x = k THEN v ELSE f[x]]

DepTreeNew ==
    [num_sources |-> 0, sources |-> EmptyFn, dependencies |-> EmptyFn,
     roots |-> <<>>, depths |-> EmptyFn]

\* a fresh handle: the number of handles minted so far
new_source(tree) == tree.num_sources

AfterNewSource(tree) == [tree EXCEPT !.num_sources = @ + 1]

set_roots(tree, ids) == [tree EXCEPT !.roots = ids]

set_source(tree, source, dep_ids) ==
    [tree EXCEPT !.sources = Put(@, source.id, source),
                 !.dependencies = Put(@, source.id, dep_ids)]

Max(S) == CHOOSE x \in S : \A y \in S : y <= x

RECURSIVE Depth(_, _, _)
\* 0 without recorded dependencies, else 1 + the deepest dependency
Depth(tree, h, fuel) ==
    IF fuel = 0 \/ h \notin DOMAIN tree.dependencies
          \/ tree.dependencies[h] = <<>>
    THEN 0
    ELSE 1 + Max({ Depth(tree, tree.dependencies[h][i], fuel - 1) :
                     i \in 1..Len(tree.dependencies[h]) })

compute_depths(tree) ==
    [tree EXCEPT !.depths =
        [h \in DOMAIN tree.sources |-> Depth(tree, h, tree.num_sources)]]

\* Source::new, when the host's validation accepts the node
Source(id, source_version, source_paths, is_root) ==
    [id |-> id, version |-> source_version, source_paths |-> source_paths,
     is_root |-> is_root]

----------------------------------------------------------------------------
(* packages: one step per package entry and resolution mode *)

Failed(m, where) == [tag |-> "Err", msg |-> m, at |-> where]

CurPackage == metadata.packages[pkg_i]

CurPath == source_path(CurPackage, in_dotarget)

Skips_Errors(path) == path.tag # "Some"

\* lines 59-61: `continue` when the mode found nothing
Skips(path) == path.tag = "None"

PushPath_Front(source_paths, path) == <<path>> \o source_paths

\* line 72
PushPath(source_paths, path) == Append(source_paths, path)

\* lines 68-72: the argument of or_insert is evaluated before the call, so
\* `default` is built (and its handle minted) whether or not the entry exists
EntryOrInsertPush(map, source_version, default, path) ==
    LET entry == IF source_version \in DOMAIN map THEN map[source_version]
                 ELSE default
    IN Put(map, source_version,
           [entry EXCEPT !.source_paths = PushPath(@, path)])

NextMode ==
    IF in_dotarget
    THEN pkg_i' = pkg_i + 1 /\ in_dotarget' = FALSE
    ELSE pkg_i' = pkg_i /\ in_dotarget' = TRUE

InPackages == pc = "packages" /\ pkg_i <= Len(metadata.packages)

PackageFound ==
    /\ InPackages
    /\ CurPath.tag = "Some"
    /\ LET source_id == new_source(dep_tree)
           default == [source_id |-> source_id, source_paths |-> <<>>]
       IN /\ dep_tree' = AfterNewSource(dep_tree)
          /\ package_map' =
                EntryOrInsertPush(package_map, CurPackage.id, default,
                                  CurPath.path)
    /\ NextMode
    /\ UNCHANGED <<metadata, config, pc, root_ids, member_i, node_i,
                   set_calls, result>>

PackageSkipped ==
    /\ InPackages
    /\ Skips(CurPath)
    /\ NextMode
    /\ UNCHANGED <<metadata, config, pc, package_map, dep_tree, root_ids,
                   member_i, node_i, set_calls, result>>

\* line 58: source_path(..)? returns the error from packages and, at
\* line 16, from dependency_tree
PackageFailed ==
    /\ InPackages
    /\ CurPath.tag # "Some" /\ ~Skips(CurPath)
    /\ result' = Failed(CurPath.msg, "packages")
    /\ pc' = "done"
    /\ UNCHANGED <<metadata, config, pkg_i, in_dotarget, package_map,
                   dep_tree, root_ids, member_i, node_i, set_calls>>

\* line 76 and line 18: the mapping is complete, build_dep_tree starts
PackagesDone ==
    /\ pc = "packages" /\ pkg_i > Len(metadata.packages)
    /\ pc' = "members"
    /\ UNCHANGED <<metadata, config, pkg_i, in_dotarget, package_map,
                   dep_tree, root_ids, member_i, node_i, set_calls, result>>

----------------------------------------------------------------------------
(* build_dep_tree *)

package_OrDefault(source_version, packages) ==
    IF source_version \in DOMAIN packages
    THEN [tag |-> "Ok", package |-> packages[source_version]]
    ELSE [tag |-> "Ok",
          package |-> [source_id |-> dep_tree.num_sources, source_paths |-> <<>>]]

\* lines 159-162
package(source_version, packages) ==
    IF source_version \in DOMAIN packages
    THEN [tag |-> "Ok", package |-> packages[source_version]]
    ELSE Err("Couldn't find package for")

Count(h) == IF h \in DOMAIN set_calls THEN set_calls[h] ELSE 0

Registered(h) == Put(set_calls, h, Count(h) + 1)

InMembers == pc = "members" /\ member_i <= Len(metadata.workspace_members)

CurMember == metadata.workspace_members[member_i]

\* lines 89-99, a member with a package
MemberFound ==
    /\ InMembers
    /\ package(CurMember, package_map).tag = "Ok"
    /\ LET member_package == package(CurMember, package_map).package IN
       /\ root_ids' = Append(root_ids, member_package.source_id)
       /\ IF config.omit_deps
          THEN \E accepted \in BOOLEAN :
                 IF accepted
                 THEN /\ dep_tree' = set_source(dep_tree,
                             Source(member_package.source_id, CurMember,
                                    member_package.source_paths, TRUE), <<>>)
                      /\ set_calls' = Registered(member_package.source_id)
                      /\ member_i' = member_i + 1
                      /\ UNCHANGED <<pc, result>>
                 ELSE /\ result' = Failed("Source::new", "members")
                      /\ pc' = "done"
                      /\ UNCHANGED <<dep_tree, set_calls, member_i>>
          ELSE /\ member_i' = member_i + 1
               /\ UNCHANGED <<dep_tree, set_calls, pc, result>>
    /\ UNCHANGED <<metadata, config, pkg_i, in_dotarget, package_map, node_i>>

\* line 90: package(member, packages)? fails
MemberUnresolved ==
    /\ InMembers
    /\ package(CurMember, package_map).tag = "Err"
    /\ result' = Failed(package(CurMember, package_map).msg, "members")
    /\ pc' = "done"
    /\ UNCHANGED <<metadata, config, pkg_i, in_dotarget, package_map,
                   dep_tree, root_ids, member_i, node_i, set_calls>>

EarlyReturn_Never == FALSE

\* lines 105-107
EarlyReturn == config.omit_deps

\* lines 104-107, and lines 19-21 when build_dep_tree returns here
RootsSet ==
    /\ pc = "members" /\ member_i > Len(metadata.workspace_members)
    /\ IF EarlyReturn
       THEN /\ dep_tree' = compute_depths(set_roots(dep_tree, root_ids))
            /\ result' = [tag |-> "Ok", tree |-> dep_tree']
            /\ pc' = "done"
       ELSE /\ dep_tree' = set_roots(dep_tree, root_ids)
            /\ pc' = "nodes"
            /\ UNCHANGED result
    /\ UNCHANGED <<metadata, config, pkg_i, in_dotarget, package_map,
                   root_ids, member_i, node_i, set_calls>>

InNodes == pc = "nodes" /\ node_i <= Len(metadata.nodes)

CurNode == metadata.nodes[node_i]

\* lines 141-144: the handles of the dependencies, when each has a package
AllResolved(dependencies) ==
    \A i \in 1..Len(dependencies) :
        package(dependencies[i], package_map).tag = "Ok"

DepIds(dependencies) ==
    [i \in 1..Len(dependencies) |->
        package(dependencies[i], package_map).package.source_id]

IsRoot_First(ids, source_id) == ids # <<>> /\ ids[1] = source_id

\* line 151
IsRoot(ids, source_id) == \E i \in 1..Len(ids) : ids[i] = source_id

NodeResolves ==
    /\ package(CurNode.id, package_map).tag = "Ok"
    /\ AllResolved(CurNode.dependencies)

\* lines 114-154, a node whose package and dependencies are found
NodeFound ==
    /\ InNodes
    /\ NodeResolves
    /\ LET node_package == package(CurNode.id, package_map).package
           dep_ids == DepIds(CurNode.dependencies)
           is_root == IsRoot(root_ids, node_package.source_id)
       IN \E accepted \in BOOLEAN :
            IF accepted
            THEN /\ dep_tree' = set_source(dep_tree,
                        Source(node_package.source_id, CurNode.id,
                               node_package.source_paths, is_root), dep_ids)
                 /\ set_calls' = Registered(node_package.source_id)
                 /\ node_i' = node_i + 1
                 /\ UNCHANGED <<pc, result>>
            ELSE /\ result' = Failed("Source::new", "nodes")
                 /\ pc' = "done"
                 /\ UNCHANGED <<dep_tree, set_calls, node_i>>
    /\ UNCHANGED <<metadata, config, pkg_i, in_dotarget, package_map,
                   root_ids, member_i>>

\* line 120 or line 143: package(..)? fails
NodeUnresolved ==
    /\ InNodes
    /\ ~NodeResolves
    /\ result' = Failed("Couldn't find package for", "nodes")
    /\ pc' = "done"
    /\ UNCHANGED <<metadata, config, pkg_i, in_dotarget, package_map,
                   dep_tree, root_ids, member_i, node_i, set_calls>>

\* line 156 and lines 19-21
NodesDone ==
    /\ pc = "nodes" /\ node_i > Len(metadata.nodes)
    /\ dep_tree' = compute_depths(dep_tree)
    /\ result' = [tag |-> "Ok", tree |-> dep_tree']
    /\ pc' = "done"
    /\ UNCHANGED <<metadata, config, pkg_i, in_dotarget, package_map,
                   root_ids, member_i, node_i, set_calls>>

----------------------------------------------------------------------------
(* The documents *)

SeqsUpTo(S, n) == UNION { [1..k -> S] : k \in 0..n }

Target(kind, src_path) == [kind |-> kind, src_path |-> src_path]

\* a library with an existing target directory beside its sources
LibShape ==
    [manifest_path |-> Abs(<<"p", "Cargo.toml">>),
     targets |-> << Target(<<"lib">>, Abs(<<"p", "src", "lib.rs">>)) >>]

\* a build script, then a binary; no target directory
BinShape ==
    [manifest_path |-> Abs(<<"q", "Cargo.toml">>),
     targets |-> << Target(<<"custom-build">>, Abs(<<"q", "build.rs">>)),
                    Target(<<"bin">>, Abs(<<"q", "src", "main.rs">>)) >>]

\* only an example: no target of a supported kind
ExampleShape ==
    [manifest_path |-> Abs(<<"q", "Cargo.toml">>),
     targets |-> << Target(<<"example">>, Abs(<<"q", "src", "main.rs">>)) >>]

\* the entry file lies in the root directory
RootFileShape ==
    [manifest_path |-> Abs(<<"Cargo.toml">>),
     targets |-> << Target(<<"proc-macro">>, Abs(<<"lib.rs">>)) >>]

\* the entry file does not exist
MissingShape ==
    [manifest_path |-> Abs(<<"p", "Cargo.toml">>),
     targets |-> << Target(<<"test">>, Abs(<<"p", "tests", "t.rs">>)) >>]

\* a relative entry path
RelativeShape ==
    [manifest_path |-> Abs(<<"p", "Cargo.toml">>),
     targets |-> << Target(<<"example", "cdylib">>, Rel(<<"src", "lib.rs">>)) >>]

\* no manifest_path field
NoManifestShape ==
    [manifest_path |-> NoField,
     targets |-> << Target(<<"lib">>, Abs(<<"p", "src", "lib.rs">>)) >>]

Shapes == { LibShape, BinShape, ExampleShape, RootFileShape, MissingShape,
            RelativeShape, NoManifestShape }

Pkg(id, shape) ==
    [id |-> id, manifest_path |-> shape.manifest_path,
     targets |-> shape.targets]

Entries(shapes) == { Pkg(id, shape) : id \in Ids, shape \in shapes }

Node(id, dependencies) == [id |-> id, dependencies |-> dependencies]

DepLists == { <<>>, <<"a">>, <<"b">>, <<"a", "b">> }

NodeEntries == { Node(id, deps) : id \in Ids, deps \in DepLists }

Edges(nodes) ==
    UNION { { <<nodes[n].id, nodes[n].dependencies[d]>> :
                d \in 1..Len(nodes[n].dependencies) } : n \in 1..Len(nodes) }

RECURSIVE Reach(_, _, _)
Reach(E, S, fuel) ==
    IF fuel = 0 THEN S
    ELSE Reach(E, S \cup { e[2] : e \in { x \in E : x[1] \in S } }, fuel - 1)

\* the resolved graph of a snapshot has no cycle
Acyclic(nodes) ==
    \A id \in Ids :
        id \notin Reach(Edges(nodes),
                        { e[2] : e \in { x \in Edges(nodes) : x[1] = id } },
                        Cardinality(Ids))

NodeLists == { n \in SeqsUpTo(NodeEntries, MaxNodes) : Acyclic(n) }

Document(packages, workspace_members, nodes) ==
    [packages |-> packages, workspace_members |-> workspace_members,
     nodes |-> nodes]

\* package lists for the documents that vary the members and the nodes
PackageLists ==
    { << Pkg("a", LibShape) >>,
      << Pkg("a", LibShape), Pkg("b", BinShape) >>,
      << Pkg("a", LibShape), Pkg("b", ExampleShape) >>,
      << Pkg("a", BinShape), Pkg("b", MissingShape) >>,
      << Pkg("b", RelativeShape), Pkg("b", LibShape) >> }

\* members and nodes for the documents that vary the packages
Graphs ==
    { <<  <<>>, <<>>  >>,
      <<  <<"a">>, << Node("a", <<"b">>) >>  >>,
      <<  <<"a", "b">>, << Node("b", <<>>), Node("a", <<"b">>) >>  >> }

Start ==
    /\ config \in [omit_deps : BOOLEAN]
    /\ pc = "packages"
    /\ pkg_i = 1
    /\ in_dotarget = FALSE
    /\ package_map = EmptyFn
    /\ dep_tree = DepTreeNew
    /\ root_ids = <<>>
    /\ member_i = 1
    /\ node_i = 1
    /\ set_calls = EmptyFn
    /\ result = [tag |-> "Running"]

Init ==
    /\ metadata \in { Document(p, m, n) : p \in PackageLists,
                        m \in SeqsUpTo(Ids, MaxMembers), n \in NodeLists }
    /\ Start

InitPackages ==
    /\ metadata \in { Document(p, g[1], g[2]) :
                        p \in SeqsUpTo(Entries(Shapes), MaxPkgs), g \in Graphs }
    /\ Start

Next ==
    \/ PackageFound
    \/ PackageSkipped
    \/ PackageFailed
    \/ PackagesDone
    \/ MemberFound
    \/ MemberUnresolved
    \/ RootsSet
    \/ NodeFound
    \/ NodeUnresolved
    \/ NodesDone

\* documents that vary the workspace members and the resolve nodes
Spec == Init /\ [][Next]_vars

\* documents that vary the package list
SpecPackages == InitPackages /\ [][Next]_vars

----------------------------------------------------------------------------
(* Vocabulary of the properties *)

Done == pc = "done"

Returned == result.tag = "Ok"

Errored == result.tag = "Err"

Range(seq) == { seq[i] : i \in 1..Len(seq) }

MemberIds == Range(metadata.workspace_members)

NodeIds == { metadata.nodes[n].id : n \in 1..Len(metadata.nodes) }

DepIdsOfNodes == { e[2] : e \in Edges(metadata.nodes) }

PackageIds == { metadata.packages[k].id : k \in 1..Len(metadata.packages) }

Handles == { package_map[id].source_id : id \in DOMAIN package_map }

Resolved(id) == id \in DOMAIN package_map

AllDeps(tree) ==
    UNION { Range(tree.dependencies[h]) : h \in DOMAIN tree.dependencies }

PrimaryOf(k) == source_path(metadata.packages[k], FALSE)

BuildOutputOf(k) == source_path(metadata.packages[k], TRUE)

NoDirectory(k) == PrimaryOf(k).tag # "Some" /\ BuildOutputOf(k).tag # "Some"

Unsupported(k) == FirstSupported(metadata.packages[k].targets) = 0

ResolverFailed == Errored /\ result.at = "packages"

----------------------------------------------------------------------------
(* C1 *)

\* C1 as stated: in full-graph mode every dependency handle of a returned
\* tree is the handle of a Source registered with set_source.
C1_NoDanglingEdges ==
    (Done /\ Returned /\ ~config.omit_deps) =>
        AllDeps(result.tree) \subseteq DOMAIN result.tree.sources

\* C1 amended: every dependency handle registered in the tree is the handle
\* of an entry of the package mapping, and in full-graph mode a dependency
\* identifier without an entry makes the construction fail.
C1_DepsHavePackages ==
    /\ AllDeps(dep_tree) \subseteq Handles
    /\ (Done /\ ~config.omit_deps /\ ~(DepIdsOfNodes \subseteq DOMAIN package_map))
          => Errored

\* a returned tree with an edge to a handle that was never registered
C1_Witness ==
    /\ Done /\ Returned /\ ~config.omit_deps
    /\ \E h \in AllDeps(result.tree) :
          h \in Handles /\ h \notin DOMAIN result.tree.sources

----------------------------------------------------------------------------
(* C2 *)

\* C2: in omit-deps mode a returned tree has exactly the members' handles
\* as nodes, each with no dependencies and depth 0, and the resolve nodes
\* are never read: no failure comes from them.
C2_OmitDepsRootsOnly ==
    (Done /\ config.omit_deps) =>
        /\ node_i = 1
        /\ Errored => result.at # "nodes"
        /\ Returned =>
             /\ DOMAIN result.tree.sources =
                   { package_map[m].source_id : m \in MemberIds }
             /\ \A h \in DOMAIN result.tree.sources :
                   /\ result.tree.dependencies[h] = <<>>
                   /\ result.tree.depths[h] = 0
                   /\ result.tree.sources[h].id = h

\* omit-deps mode returns two roots although the resolve nodes have edges
C2_Witness ==
    /\ Done /\ Returned /\ config.omit_deps
    /\ Cardinality(DOMAIN result.tree.sources) = 2
    /\ DepIdsOfNodes # {}

----------------------------------------------------------------------------
(* C3 *)

\* C3: the roots of a returned tree are the handles of the workspace
\* members' packages, and a registered Source is a root iff its handle is
\* one of them.
C3_RootsAreMembers ==
    (Done /\ Returned) =>
        /\ Range(result.tree.roots) =
              { package_map[m].source_id : m \in MemberIds }
        /\ \A h \in DOMAIN result.tree.sources :
              result.tree.sources[h].is_root <=> h \in Range(result.tree.roots)

\* a full graph with a registered root and a registered node that is no root
C3_Witness ==
    /\ Done /\ Returned /\ ~config.omit_deps
    /\ \E h \in DOMAIN result.tree.sources : ~result.tree.sources[h].is_root
    /\ \E h \in DOMAIN result.tree.sources : result.tree.sources[h].is_root

----------------------------------------------------------------------------
(* C4 *)

UnresolvedMember == \E m \in MemberIds : ~Resolved(m)

UnresolvedNode == \E n \in NodeIds \cup DepIdsOfNodes : ~Resolved(n)

\* C4 as stated: a member, node or dependency identifier without an entry
\* in the mapping makes dependency_tree return an error.
C4_UnresolvedAlwaysFails ==
    (Done /\ (UnresolvedMember \/ UnresolvedNode)) => Errored

\* C4 amended: a workspace member without an entry, or in full-graph mode a
\* node or dependency identifier without an entry, makes dependency_tree
\* return an error, which carries no tree.
C4_UnresolvedFails ==
    /\ (Done /\ (UnresolvedMember \/ (~config.omit_deps /\ UnresolvedNode)))
          => Errored
    /\ Errored => DOMAIN result = {"tag", "msg", "at"}

\* the lookup of a node fails after a source was registered
C4_Witness ==
    /\ Done /\ Errored /\ result.at = "nodes"
    /\ result.msg = "Couldn't find package for"
    /\ DOMAIN dep_tree.sources # {}

----------------------------------------------------------------------------
(* C5 *)

\* C5: the resolver never fails in build-output mode, that is after the
\* primary mode of the same package entry found a directory.
C5_BuildOutputNeverFails ==
    (Done /\ ResolverFailed) => ~in_dotarget

----------------------------------------------------------------------------
(* C6 *)

WellFormedGraph ==
    /\ MemberIds \cup NodeIds \cup DepIdsOfNodes \subseteq PackageIds
    /\ \A i, j \in 1..Len(metadata.packages) :
          metadata.packages[i].id = metadata.packages[j].id => i = j
    /\ \A i, j \in 1..Len(metadata.nodes) :
          metadata.nodes[i].id = metadata.nodes[j].id => i = j
    /\ \A i, j \in 1..Len(metadata.workspace_members) :
          metadata.workspace_members[i] = metadata.workspace_members[j] => i = j

\* every package either has no target of a supported kind or resolves
OtherwiseWellFormed ==
    /\ WellFormedGraph
    /\ \E k \in 1..Len(metadata.packages) : Unsupported(k)
    /\ \A k \in 1..Len(metadata.packages) :
          Unsupported(k) \/ (PrimaryOf(k).tag = "Some" /\ BuildOutputOf(k).tag # "Err")

\* C6: a document that is well formed but for packages without a target of
\* a supported kind yields a tree, unless Source::new rejects a node, and
\* the tree has no node for such a package.
C6_UnsupportedPackageIsAbsent ==
    (Done /\ OtherwiseWellFormed) =>
        /\ Errored => result.msg = "Source::new"
        /\ Returned =>
             \A k \in 1..Len(metadata.packages) :
                Unsupported(k) =>
                   \A h \in DOMAIN result.tree.sources :
                      result.tree.sources[h].version # metadata.packages[k].id

----------------------------------------------------------------------------
(* C7 *)

----------------------------------------------------------------------------
(* C8 *)

\* C8: the handles minted by new_source are as many as the entries of the
\* mapping.
C8_HandlesEqualEntries ==
    dep_tree.num_sources = Cardinality(DOMAIN package_map)

----------------------------------------------------------------------------
(* C9 *)

\* C9: set_source is called at most once for a handle.
C9_SetSourceOncePerHandle ==
    \A h \in DOMAIN set_calls : set_calls[h] <= 1

----------------------------------------------------------------------------
(* C10 *)

\* the package entries whose primary mode has been run
PrimaryRun ==
    { k \in 1..Len(metadata.packages) : k < pkg_i \/ (k = pkg_i /\ (in_dotarget \/ pc # "packages")) }

DistinctPackageIds ==
    \A i, j \in 1..Len(metadata.packages) :
        metadata.packages[i].id = metadata.packages[j].id => i = j

\* C10: at every step of the resolver each Package of the mapping has a
\* first path, the primary directory of the first entry of its identity
\* that resolved; build-output mode yields no directory for an entry whose
\* primary mode found none; with distinct package ids a Package has one or
\* two paths.
C10_PrimaryFirst ==
    /\ \A id \in DOMAIN package_map :
          LET paths == package_map[id].source_paths
              mine == { k \in PrimaryRun :
                          metadata.packages[k].id = id /\ PrimaryOf(k).tag = "Some" }
          IN /\ paths # <<>>
             /\ mine # {}
             /\ PrimaryOf(CHOOSE k \in mine : \A j \in mine : k <= j) = Some(paths[1])
             /\ DistinctPackageIds => Len(paths) \in {1, 2}
    /\ \A k \in 1..Len(metadata.packages) :
          PrimaryOf(k).tag = "None" => BuildOutputOf(k).tag = "None"

\* a Package with its primary directory and then its build-output directory
C10_Witness ==
    \E id \in DOMAIN package_map :
        /\ Len(package_map[id].source_paths) = 2
        /\ package_map[id].source_paths[1] = Abs(<<"p", "src">>)
        /\ package_map[id].source_paths[2] = Abs(<<"p", "target">>)

====
